---- MODULE Spec2Model ----
(***************************************************************************)
(* CogView4DenoiseInvocation (invokeai/app/invocations/cogview4_denoise.py) *)
(*                                                                         *)
(* Spec      one run of _run_diffusion, statement by statement.            *)
(* StepSpec  the per-step arithmetic of the denoising loop (classifier-    *)
(*           free guidance and the Euler update, lines 313-322) folded     *)
(*           along a timestep schedule, the predictions being inputs.      *)
(*                                                                         *)
(* Numbers.  A timestep is a float in [0, 1]; it is held in fixed point,   *)
(* TUnit units to 1.0, so that 1e-5, 1e-6 and i/steps are all integers.    *)
(* A latent tensor is held as one element.  In Spec a latent element is    *)
(* held in fixed point too (TUnit units to 1.0), which keeps               *)
(* t_0 * noise + (1 - t_0) * init_latents exact.                           *)
(*                                                                         *)
(* _run_diffusion reads self.denoising_start, self.denoising_end and       *)
(* self.latents and calls self._prep_inpaint_mask and                      *)
(* clip_timestep_schedule_fractional; none is declared in this file.  They *)
(* are taken as the fields and helpers the specification's configuration   *)
(* surface names: two fractions in [0, 1], optional initial latents, an    *)
(* optional inpaint mask, and the clipping of the linear schedule.         *)
(*                                                                         *)
(* The loop body (lines 297-335) is reached by no run: the assertion of    *)
(* line 294 contradicts the one of line 190.  Spec therefore ends at that  *)
(* assertion; the body's arithmetic is StepSpec.                           *)
(***************************************************************************)
EXTENDS Integers, Sequences, FiniteSets, TLC

VARIABLES
    \* the invocation's fields
    steps, cfg_scale, denoising_start, denoising_end, has_latents, seed,
    \* _run_diffusion's position and outcome
    pc, error, result,
    \* _run_diffusion's locals
    model_class, sched_timesteps, timesteps, total_steps, cfg_list,
    has_init, init_latents, noise, latents, has_mask,
    \* the collaborators, as the run acts on them
    snapshots, on_device, acquisitions, releases, transformer_calls, blends,
    \* the loop's position (StepSpec)
    step_idx, entry_latents, zero_stub

vars == <<steps, cfg_scale, denoising_start, denoising_end, has_latents, seed,
          pc, error, result, model_class, sched_timesteps, timesteps,
          total_steps, cfg_list, has_init, init_latents, noise, latents,
          has_mask, snapshots, on_device, acquisitions, releases,
          transformer_calls, blends, step_idx, entry_latents, zero_stub>>

---------------------------------------------------------------------------
\* Bounds of the model.

\* The largest step count (the field is any integer > 0).
MaxSteps == 3

\* The longest cfg_scale list.
MaxCfgLen == 3

---------------------------------------------------------------------------
\* Numbers of the program.

\* 1.0 in fixed point: the start of torch.linspace(1, 0, steps + 1).
TUnit == 6000000

\* scheduler.config.num_train_timesteps.
num_train_timesteps == 1000

\* 1e-5, the tolerance of the denoising_start check.
StartTolerance == TUnit \div 100000

\* 1e-6, the tolerance clip_timestep_schedule_fractional compares with.
ClipEps == TUnit \div 1000000

---------------------------------------------------------------------------
\* Input domains.

\* steps: int = InputField(default=10, gt=0).
StepCounts == 1..MaxSteps

\* Guidance scales, in tenths (35 is the default 3.5).
CfgValues == {10, 35}

RECURSIVE SeqsUpTo(_, _)
SeqsUpTo(S, n) ==
    IF n = 0 THEN {<<>>}
    ELSE LET shorter == SeqsUpTo(S, n - 1)
         IN  shorter \cup {Append(s, x) : s \in {t \in shorter : Len(t) = n - 1}, x \in S}

\* cfg_scale: float | list[float].
CfgScales ==
    {[kind |-> "float", s |-> v, l |-> <<>>] : v \in CfgValues}
    \cup {[kind |-> "list", s |-> 0, l |-> q] : q \in SeqsUpTo(CfgValues, MaxCfgLen)}

\* denoising_start, denoising_end: fractions in [0, 1]: 0, 5e-6, 0.5 and 1.
DenoisingFractions == {0, TUnit \div 200000, TUnit \div 2, TUnit}

\* seed: int.
Seeds == {0, 1}

\* What context.tensors.load may return (one element of the tensor).
LatentValues == {-1, 3}

\* The classes a loaded model may have; diffusers defines them unrelated.
ModelClasses == {"CogView4Transformer2DModel", "SD3Transformer2DModel", "T5EncoderModel"}

\* A conditioning record: how many conditionings it holds and of what class.
CondRecords ==
    {[n |-> k, cls |-> c] : k \in {1, 2}, c \in {"CogView4ConditioningInfo", "SD3ConditioningInfo"}}

---------------------------------------------------------------------------
\* Helpers.

\* isinstance(x, cls) for x of class c, between classes none of which
\* derives from another.
IsInstance(c, cls) == c = cls

Last(s) == s[Len(s)]

NonIncreasing(s) == \A i \in 1..(Len(s) - 1) : s[i] >= s[i + 1]

\* int(t) of a float t >= 0 held in fixed point.
IntOf(t) == t \div TUnit

\* _get_noise: torch.randn under manual_seed(seed); one element, a function
\* of the seed alone.
_get_noise(sd) == IF sd = 0 THEN 2 ELSE -1

---------------------------------------------------------------------------
\* The pure functions of the run.

\* _prepare_timesteps (the Schedule Builder): torch.linspace(1000, 1.0,
\* num_steps) truncated to int64; the scheduler is handed these timesteps
\* (with the sigmas and mu derived from them) and keeps the timesteps it is
\* handed, so scheduler.timesteps reads them back.  Whole numbers, in
\* train-timestep units (not fixed point).
_prepare_timesteps(num_steps) ==
    [i \in 1..num_steps |->
        IF num_steps = 1 THEN num_train_timesteps
        ELSE (num_train_timesteps * (num_steps - 1)
                - (i - 1) * (num_train_timesteps - 1)) \div (num_steps - 1)]

LinearScheduleShort(n) ==
    [i \in 1..n |-> IF n = 1 THEN TUnit ELSE TUnit - ((i - 1) * TUnit) \div (n - 1)]

\* torch.linspace(1, 0, self.steps + 1).tolist()
LinearSchedule(n) == [i \in 1..(n + 1) |-> TUnit - ((i - 1) * TUnit) \div n]

\* _find_last_index_ge_val: the number of entries >= val - eps; the
\* (1-based) index of the last of them in a non-increasing list.
FindLastIndexGeVal(ts, val) == Cardinality({i \in 1..Len(ts) : ts[i] >= val - ClipEps})

\* clip_timestep_schedule_fractional(timesteps, denoising_start,
\* denoising_end): the entries from the last one >= 1 - denoising_start to
\* the last one >= 1 - denoising_end, the first replaced by
\* 1 - denoising_start, and 1 - denoising_end appended when the last entry
\* is above it.  ok is FALSE when its assertions fail.
clip_timestep_schedule_fractional(ts, dstart, dend) ==
    IF ~(0 <= dstart /\ dstart <= TUnit /\ 0 <= dend /\ dend <= TUnit /\ dstart <= dend)
    THEN [ok |-> FALSE, v |-> <<>>]
    ELSE LET t_start_val == TUnit - dstart
             t_end_val   == TUnit - dend
             t_start_idx == FindLastIndexGeVal(ts, t_start_val)
             t_end_idx   == FindLastIndexGeVal(ts, t_end_val)
             clipped     == [SubSeq(ts, t_start_idx, t_end_idx) EXCEPT ![1] = t_start_val]
         IN  [ok |-> TRUE,
              v  |-> IF Last(clipped) > t_end_val + ClipEps
                     THEN Append(clipped, t_end_val)
                     ELSE clipped]

CfgScaleUnchecked(cfg, num_timesteps) ==
    IF cfg.kind = "float"
    THEN [ok |-> TRUE, v |-> [i \in 1..num_timesteps |-> cfg.s]]
    ELSE [ok |-> TRUE, v |-> cfg.l]

\* _prepare_cfg_scale(num_timesteps).  The ValueError branch needs a
\* cfg_scale that is neither a float nor a list, which the field's type
\* float | list[float] excludes.  ok is FALSE when the assertion fails.
_prepare_cfg_scale(cfg, num_timesteps) ==
    IF cfg.kind = "float"
    THEN [ok |-> TRUE, v |-> [i \in 1..num_timesteps |-> cfg.s]]
    ELSE IF Len(cfg.l) = num_timesteps
         THEN [ok |-> TRUE, v |-> cfg.l]
         ELSE [ok |-> FALSE, v |-> <<>>]

StartCheckMissing(dstart) == FALSE

\* self.denoising_start > 1e-5
StartCheck(dstart) == dstart > StartTolerance

ShortCircuitStrict(ts) == Len(ts) < 1

\* len(timesteps) <= 1
ShortCircuitCond(ts) == Len(ts) <= 1

\* t_0 * noise + (1.0 - t_0) * init_latents, in fixed point.
NoisedInit(t_0, n, init) == t_0 * n + (TUnit - t_0) * init

WithExitOnReturnOnly(raised) ==
    IF raised THEN [on_device |-> TRUE, released |-> 0]
    ELSE [on_device |-> FALSE, released |-> 1]

\* Leaving the with-block of transformer_info.model_on_device(): the
\* context manager is exited whether the block returns or raises.
WithExit(raised) == [on_device |-> FALSE, released |-> 1]

---------------------------------------------------------------------------
\* Spec: one run of _run_diffusion.

fields == <<steps, cfg_scale, denoising_start, denoising_end, has_latents, seed>>
collab == <<snapshots, on_device, acquisitions, releases, transformer_calls, blends>>
stepv  == <<step_idx, entry_latents, zero_stub>>

Init ==
    /\ steps \in StepCounts
    /\ cfg_scale \in CfgScales
    /\ denoising_start \in DenoisingFractions
    /\ denoising_end \in DenoisingFractions
    /\ has_latents \in BOOLEAN
    /\ seed \in Seeds
    /\ pc = "start" /\ error = "" /\ result = 0
    /\ model_class = "" /\ sched_timesteps = <<>> /\ timesteps = <<>>
    /\ total_steps = 0 /\ cfg_list = <<>>
    /\ has_init = FALSE /\ init_latents = 0 /\ noise = 0 /\ latents = 0
    /\ has_mask = FALSE
    /\ snapshots = <<>> /\ on_device = FALSE /\ acquisitions = 0 /\ releases = 0
    /\ transformer_calls = 0 /\ blends = 0
    /\ step_idx = 0 /\ entry_latents = 0 /\ zero_stub = FALSE

\* An exception leaves _run_diffusion: nothing is returned.
Raise(e) == pc' = "failed" /\ error' = e

\* context.models.load_by_attrs(...) and the assertion on the model's class.
LoadModel ==
    /\ pc = "start"
    /\ \E c \in ModelClasses :
          /\ model_class' = c
          /\ IF IsInstance(c, "CogView4Transformer2DModel")
             THEN pc' = "conditioning" /\ error' = error
             ELSE Raise("AssertionError:190")
    /\ UNCHANGED <<fields, result, sched_timesteps, timesteps, total_steps, cfg_list,
                   has_init, init_latents, noise, latents, has_mask, collab, stepv>>

\* _load_text_conditioning, for the positive then the negative conditioning.
LoadTextConditioning ==
    /\ pc = "conditioning"
    /\ \E pos \in CondRecords, neg \in CondRecords :
          LET bad(r) == IF r.n # 1 THEN "AssertionError:68"
                        ELSE IF ~IsInstance(r.cls, "CogView4ConditioningInfo")
                             THEN "AssertionError:70" ELSE ""
          IN  IF bad(pos) # "" THEN Raise(bad(pos))
              ELSE IF bad(neg) # "" THEN Raise(bad(neg))
              ELSE pc' = "timesteps" /\ error' = error
    /\ UNCHANGED <<fields, result, model_class, sched_timesteps, timesteps, total_steps,
                   cfg_list, has_init, init_latents, noise, latents, has_mask, collab, stepv>>

\* timesteps = self._prepare_timesteps(scheduler, self.steps, image_seq_len)
PrepareTimesteps ==
    /\ pc = "timesteps"
    /\ sched_timesteps' = _prepare_timesteps(steps)
    /\ pc' = "clip"
    /\ UNCHANGED <<fields, error, result, model_class, timesteps, total_steps, cfg_list,
                   has_init, init_latents, noise, latents, has_mask, collab, stepv>>

\* timesteps = linspace(1, 0, steps + 1), clipped; total_steps = len - 1.
ClipSchedule ==
    /\ pc = "clip"
    /\ LET c == clip_timestep_schedule_fractional(LinearSchedule(steps),
                                                  denoising_start, denoising_end)
       IN  IF c.ok
           THEN /\ timesteps' = c.v
                /\ total_steps' = Len(c.v) - 1
                /\ pc' = "cfg" /\ error' = error
           ELSE /\ Raise("AssertionError:clip")
                /\ UNCHANGED <<timesteps, total_steps>>
    /\ UNCHANGED <<fields, result, model_class, sched_timesteps, cfg_list,
                   has_init, init_latents, noise, latents, has_mask, collab, stepv>>

\* cfg_scale = self._prepare_cfg_scale(total_steps)
PrepareCfgScale ==
    /\ pc = "cfg"
    /\ LET r == _prepare_cfg_scale(cfg_scale, total_steps)
       IN  IF r.ok
           THEN cfg_list' = r.v /\ pc' = "load" /\ error' = error
           ELSE Raise("AssertionError:112") /\ cfg_list' = cfg_list
    /\ UNCHANGED <<fields, result, model_class, sched_timesteps, timesteps, total_steps,
                   has_init, init_latents, noise, latents, has_mask, collab, stepv>>

\* init_latents = context.tensors.load(...) if self.latents else None;
\* noise = self._get_noise(..., seed=self.seed)
LoadLatents ==
    /\ pc = "load"
    /\ IF has_latents
       THEN \E x \in LatentValues : init_latents' = x /\ has_init' = TRUE
       ELSE init_latents' = init_latents /\ has_init' = FALSE
    /\ noise' = _get_noise(seed)
    /\ pc' = "blend"
    /\ UNCHANGED <<fields, error, result, model_class, sched_timesteps, timesteps,
                   total_steps, cfg_list, latents, has_mask, collab, stepv>>

\* Prepare input latent image (lines 254-263).
PrepareLatents ==
    /\ pc = "blend"
    /\ IF has_init
       THEN /\ latents' = NoisedInit(timesteps[1], noise, init_latents)
            /\ pc' = "shortcircuit" /\ error' = error
       ELSE IF StartCheck(denoising_start)
            THEN Raise("ValueError:262") /\ latents' = latents
            ELSE /\ latents' = TUnit * noise
                 /\ pc' = "shortcircuit" /\ error' = error
    /\ UNCHANGED <<fields, result, model_class, sched_timesteps, timesteps, total_steps,
                   cfg_list, has_init, init_latents, noise, has_mask, collab, stepv>>

\* if len(timesteps) <= 1: return latents
ShortCircuit ==
    /\ pc = "shortcircuit"
    /\ IF ShortCircuitCond(timesteps)
       THEN pc' = "done" /\ result' = latents
       ELSE pc' = "inpaint" /\ result' = result
    /\ UNCHANGED <<fields, error, model_class, sched_timesteps, timesteps, total_steps,
                   cfg_list, has_init, init_latents, noise, latents, has_mask, collab, stepv>>

\* inpaint_mask = self._prep_inpaint_mask(context, latents): a mask or None;
\* a mask needs init_latents (the assertion of line 274).
PrepInpaint ==
    /\ pc = "inpaint"
    /\ \E m \in BOOLEAN :
          IF m /\ ~has_init
          THEN Raise("AssertionError:274") /\ has_mask' = has_mask
          ELSE has_mask' = m /\ pc' = "callback" /\ error' = error
    /\ UNCHANGED <<fields, result, model_class, sched_timesteps, timesteps, total_steps,
                   cfg_list, has_init, init_latents, noise, latents, collab, stepv>>

\* step_callback(PipelineIntermediateState(step=0, ...)) before the loop.
InitialCallback ==
    /\ pc = "callback"
    /\ snapshots' = Append(snapshots, [step |-> 0, total_steps |-> total_steps,
                                       timestep |-> IntOf(timesteps[1]),
                                       latents |-> latents])
    /\ pc' = "acquire"
    /\ UNCHANGED <<fields, error, result, model_class, sched_timesteps, timesteps,
                   total_steps, cfg_list, has_init, init_latents, noise, latents, has_mask,
                   on_device, acquisitions, releases, transformer_calls, blends, stepv>>

\* with transformer_info.model_on_device() as (cached_weights, transformer):
ModelOnDevice ==
    /\ pc = "acquire"
    /\ on_device' = TRUE
    /\ acquisitions' = acquisitions + 1
    /\ pc' = "assert"
    /\ UNCHANGED <<fields, error, result, model_class, sched_timesteps, timesteps,
                   total_steps, cfg_list, has_init, init_latents, noise, latents, has_mask,
                   snapshots, releases, transformer_calls, blends, stepv>>

\* assert isinstance(transformer, SD3Transformer2DModel), inside the
\* with-block: transformer is transformer_info.model, which line 190 has
\* asserted to be a CogView4Transformer2DModel.  The assertion raises, and
\* the exception leaves the with-block.  (Were it to pass, the first
\* iteration would raise NameError at line 308, pooled_prompt_embeds being
\* bound nowhere, before the transformer is called.)
AssertTransformer ==
    /\ pc = "assert"
    /\ IF IsInstance(model_class, "SD3Transformer2DModel")
       THEN /\ pc' = "loop" /\ error' = error
            /\ UNCHANGED <<on_device, releases>>
       ELSE /\ Raise("AssertionError:294")
            /\ on_device' = WithExit(TRUE).on_device
            /\ releases' = releases + WithExit(TRUE).released
    /\ UNCHANGED <<fields, result, model_class, sched_timesteps, timesteps, total_steps,
                   cfg_list, has_init, init_latents, noise, latents, has_mask,
                   snapshots, acquisitions, transformer_calls, blends, stepv>>

Next ==
    \/ LoadModel
    \/ LoadTextConditioning
    \/ PrepareTimesteps
    \/ ClipSchedule
    \/ PrepareCfgScale
    \/ LoadLatents
    \/ PrepareLatents
    \/ ShortCircuit
    \/ PrepInpaint
    \/ InitialCallback
    \/ ModelOnDevice
    \/ AssertTransformer

Spec == Init /\ [][Next]_vars

Terminated == pc \in {"done", "failed"}

---------------------------------------------------------------------------
\* StepSpec: the arithmetic of one loop iteration (lines 313-322), applied
\* along a schedule.  A latent element of the working precision is a whole
\* number; float32 is Fine times finer.  Guidance scales are in tenths, and
\* so is the combined prediction.

\* float32 values per value of the working precision.
Fine == 4

\* One element of the transformer's prediction (each half of the batch).
PredValues == {-2, 0, 1}

\* One element of the latents at loop entry.
EntryLatents == {-3, 0, 5}

\* latents.to(dtype=torch.float32)
ToFloat32(x) == x * Fine

\* latents.to(dtype=latents_dtype): to the nearest value of that precision.
ToLatentsDtype(y) == (2 * y + Fine) \div (2 * Fine)

\* noise_pred_uncond + cfg_scale[step_idx] * (noise_pred_cond - noise_pred_uncond),
\* in tenths.
ApplyCfg(uncond, cond, scale) == 10 * uncond + scale * (cond - uncond)

\* (t_prev - t_curr) * noise_pred as float32: dt in fixed point, the
\* prediction in tenths, the product rounded to float32's grid.
ScaleByDt(dt, pred) == (dt * pred) \div ((TUnit \div Fine) * 10)

EulerUpdatePlus(x, t_curr, t_prev, pred) ==
    ToLatentsDtype(ToFloat32(x) + ScaleByDt(t_prev - t_curr, 10) + ScaleByDt(TUnit, pred))

\* latents = latents.to(float32); latents = latents + (t_prev - t_curr) *
\* noise_pred; latents = latents.to(latents_dtype)
EulerUpdate(x, t_curr, t_prev, pred) ==
    ToLatentsDtype(ToFloat32(x) + ScaleByDt(t_prev - t_curr, pred))

StepInit ==
    /\ steps \in StepCounts
    /\ cfg_scale \in CfgScales
    /\ denoising_start \in DenoisingFractions
    /\ denoising_end \in DenoisingFractions
    /\ LET c == clip_timestep_schedule_fractional(LinearSchedule(steps),
                                                  denoising_start, denoising_end)
       IN  /\ c.ok /\ ~ShortCircuitCond(c.v)
           /\ timesteps = c.v
           /\ total_steps = Len(c.v) - 1
    /\ LET r == _prepare_cfg_scale(cfg_scale, total_steps)
       IN  r.ok /\ cfg_list = r.v
    /\ latents \in EntryLatents
    /\ entry_latents = latents
    /\ zero_stub \in BOOLEAN
    /\ step_idx = 0
    /\ pc = "loop" /\ error = "" /\ result = 0
    /\ has_latents = FALSE /\ seed = 0
    /\ model_class = "" /\ sched_timesteps = <<>>
    /\ has_init = FALSE /\ init_latents = 0 /\ noise = 0 /\ has_mask = FALSE
    /\ snapshots = <<>> /\ on_device = FALSE /\ acquisitions = 0 /\ releases = 0
    /\ transformer_calls = 0 /\ blends = 0

\* One iteration's guidance and Euler update, for the pair
\* (timesteps[step_idx], timesteps[step_idx + 1]) and a prediction.
EulerStep ==
    /\ pc = "loop"
    /\ step_idx < total_steps
    /\ \E uncond \in (IF zero_stub THEN {0} ELSE PredValues),
          cond \in (IF zero_stub THEN {0} ELSE PredValues) :
          latents' = EulerUpdate(latents, timesteps[step_idx + 1], timesteps[step_idx + 2],
                                 ApplyCfg(uncond, cond, cfg_list[step_idx + 1]))
    /\ step_idx' = step_idx + 1
    /\ UNCHANGED <<fields, pc, error, result, model_class, sched_timesteps, timesteps,
                   total_steps, cfg_list, has_init, init_latents, noise, has_mask,
                   collab, entry_latents, zero_stub>>

\* The zip of timestep pairs is exhausted.
LoopEnd ==
    /\ pc = "loop"
    /\ step_idx = total_steps
    /\ pc' = "loop_done"
    /\ result' = latents
    /\ UNCHANGED <<fields, error, model_class, sched_timesteps, timesteps, total_steps,
                   cfg_list, has_init, init_latents, noise, latents, has_mask, collab, stepv>>

StepNext ==
    \/ EulerStep
    \/ LoopEnd

StepSpec == StepInit /\ [][StepNext]_vars

---------------------------------------------------------------------------
\* Where a run of Spec stands.

\* Errors raised before the timestep schedule exists.
EarlyErrors == {"AssertionError:190", "AssertionError:68", "AssertionError:70",
                "AssertionError:clip"}

\* timesteps and total_steps have been computed (line 231 is passed).
ScheduleDone ==
    /\ pc \notin {"start", "conditioning", "timesteps", "clip"}
    /\ pc = "failed" => error \notin EarlyErrors

\* _prepare_cfg_scale has returned a list (line 234 is passed).
CfgDone == ScheduleDone /\ pc # "cfg" /\ ~(pc = "failed" /\ error = "AssertionError:112")

\* The with-block of line 293 has been entered.
LoopEntered == acquisitions > 0

\* The latents after the initial blend (lines 254-263), written out.
AfterInitialBlend ==
    IF has_init
    THEN timesteps[1] * noise + (TUnit - timesteps[1]) * init_latents
    ELSE TUnit * noise

\* How many snapshots carry step index i.
SnapshotsWithStep(i) == Cardinality({k \in 1..Len(snapshots) : snapshots[k].step = i})

---------------------------------------------------------------------------
\* The claims.

\* C1: _prepare_cfg_scale(n), called with n = total_steps: a scalar
\* cfg_scale s gives a list of length n whose every entry is s; a list of
\* length n is returned unchanged; a list of any other length fails (the
\* assertion) and leaves no output, not even a partial one.
C1_PrepareCfgScale ==
    /\ (CfgDone /\ cfg_scale.kind = "float") =>
          /\ Len(cfg_list) = total_steps
          /\ \A i \in 1..Len(cfg_list) : cfg_list[i] = cfg_scale.s
    /\ (CfgDone /\ cfg_scale.kind = "list") =>
          /\ Len(cfg_scale.l) = total_steps
          /\ cfg_list = cfg_scale.l
    /\ (pc = "failed" /\ error = "AssertionError:112") =>
          /\ cfg_scale.kind = "list"
          /\ Len(cfg_scale.l) # total_steps
          /\ cfg_list = <<>>

C1_Witness ==
    /\ CfgDone /\ cfg_scale.kind = "float" /\ total_steps >= 2
    /\ cfg_list = [i \in 1..total_steps |-> 35]

\* C2 (as claimed): the timestep sequence the loop iterates over is the
\* Schedule Builder's output, value for value.
C2_LoopUsesScheduleBuilder ==
    ScheduleDone =>
        /\ Len(timesteps) = Len(sched_timesteps)
        /\ \A i \in 1..Len(timesteps) :
              timesteps[i] % TUnit = 0 /\ timesteps[i] \div TUnit = sched_timesteps[i]

C4_ConfigErrorsBeforeLoop ==
    (/\ ScheduleDone
     /\ \/ cfg_scale.kind = "list" /\ Len(cfg_scale.l) # total_steps
        \/ denoising_start > 0 /\ ~has_latents) =>
        /\ pc \in {"cfg", "load", "blend", "failed"}
        /\ snapshots = <<>> /\ acquisitions = 0 /\ transformer_calls = 0

\* C4 (amended): the same, with denoising_start > 1e-5 in place of
\* denoising_start > 0; the failure is the assertion of line 112 or the
\* ValueError of line 262.
C4_ConfigErrorsWithTolerance ==
    (/\ ScheduleDone
     /\ \/ cfg_scale.kind = "list" /\ Len(cfg_scale.l) # total_steps
        \/ denoising_start > StartTolerance /\ ~has_latents) =>
        /\ pc \in {"cfg", "load", "blend", "failed"}
        /\ pc = "failed" => error \in {"AssertionError:112", "ValueError:262"}
        /\ snapshots = <<>> /\ acquisitions = 0 /\ transformer_calls = 0

C4_Witness ==
    /\ pc = "failed" /\ error = "ValueError:262"
    /\ cfg_list # <<>> /\ denoising_start = TUnit \div 2 /\ ~has_latents

\* C5 (as claimed): with a one-timestep schedule the run returns the
\* latents of the initial blend, and nothing else happens.
C5_OneTimestepReturns ==
    (ScheduleDone /\ Len(timesteps) = 1) =>
        /\ snapshots = <<>> /\ acquisitions = 0 /\ transformer_calls = 0 /\ blends = 0
        /\ Terminated => (pc = "done" /\ result = AfterInitialBlend)

\* C5 (amended): with a one-timestep schedule no snapshot, acquisition,
\* transformer invocation or inpaint blend happens, and the run either
\* returns the latents of the initial blend or raises one of the
\* configuration errors that precede the short-circuit: the assertion of
\* line 112 (a non-empty cfg_scale list) or the ValueError of line 262.
C5_OneTimestepReturnsOrConfigError ==
    (ScheduleDone /\ Len(timesteps) = 1) =>
        /\ snapshots = <<>> /\ acquisitions = 0 /\ transformer_calls = 0 /\ blends = 0
        /\ pc \in {"cfg", "load", "blend", "shortcircuit", "done", "failed"}
        /\ pc = "done" => result = AfterInitialBlend
        /\ pc = "failed" =>
              \/ /\ error = "AssertionError:112"
                 /\ cfg_scale.kind = "list" /\ cfg_scale.l # <<>>
              \/ /\ error = "ValueError:262"
                 /\ ~has_latents /\ denoising_start > StartTolerance

C5_Witness ==
    /\ pc = "done" /\ Len(timesteps) = 1 /\ has_init
    /\ timesteps[1] = TUnit \div 2
    /\ noise = 2 /\ init_latents = -1 /\ result = TUnit \div 2

\* C6: the transformer is on the device only inside the with-block, and
\* every way out of the run (a return, an exception raised inside the
\* block) has left the block: the acquisition is released, once; no
\* transformer invocation happens without an acquisition.
C6_ScopedDevice ==
    /\ on_device => pc \in {"assert", "loop"}
    /\ Terminated => (~on_device /\ releases = acquisitions)
    /\ releases <= acquisitions /\ acquisitions <= 1
    /\ transformer_calls > 0 => acquisitions > 0

C6_Witness ==
    /\ pc = "failed" /\ error = "AssertionError:294"
    /\ acquisitions = 1 /\ releases = 1 /\ ~on_device

\* C7 (as claimed): a run that has entered the loop, its model having
\* passed the check of line 190, ends by returning, after exactly
\* total_steps transformer invocations.
C7_RunsToCompletion ==
    (LoopEntered /\ IsInstance(model_class, "CogView4Transformer2DModel") /\ Terminated) =>
        /\ pc = "done"
        /\ transformer_calls = total_steps

\* C8 (as claimed): a run that has entered the loop has, when it ends,
\* emitted exactly one snapshot with step = i + 1 for every step i in
\* 0..total_steps-1, in increasing order of step.
C8_SnapshotPerStep ==
    (LoopEntered /\ Terminated) =>
        /\ \A i \in 1..total_steps : SnapshotsWithStep(i) = 1
        /\ \A k \in 1..(Len(snapshots) - 1) : snapshots[k].step < snapshots[k + 1].step

C10_BlendEveryStep ==
    (LoopEntered /\ Terminated) =>
        blends = (IF has_mask THEN total_steps ELSE 0)

====
